---- MODULE Spec2Model ----
(***************************************************************************)
(* Model of the triage pipeline of triage-api-rag/agent.py: the call       *)
(* triage(log), from the similarity lookup and the model's draft to the    *)
(* hardened TriageDecision.                                                *)
(*                                                                         *)
(* Strings are sequences of atoms.  An atom is a character ("P", "1",      *)
(* " ", ";") or a whole word that the code only ever treats as a unit      *)
(* ("kubectl", "outage", "https").  Python's substring test `k in text`    *)
(* is the contiguous-subsequence test on atoms; the inputs are chosen so   *)
(* that no keyword straddles two atoms.  A Python dict is a function       *)
(* whose DOMAIN is the set of keys present.                                *)
(***************************************************************************)
EXTENDS Integers, Sequences, FiniteSets, TLC

VARIABLES cfg, log, kb, llm_out, cases, query_text, decision, pc

vars == <<cfg, log, kb, llm_out, cases, query_text, decision, pc>>

\* ------------------------------------------------------------ strings

\* str.lower() / str.upper(), atom by atom.
LowerAtom(a) ==
    CASE a = "P" -> "p"
      [] a = "OUTAGE" -> "outage"
      [] a = "Upstream" -> "upstream"
      [] a = "KUBECTL" -> "kubectl"
      [] a = "Kubectl" -> "kubectl"
      [] a = "CURL" -> "curl"
      [] a = "GET" -> "get"
      [] a = "PODS" -> "pods"
      [] a = "ROLLOUT" -> "rollout"
      [] a = "RESTART" -> "restart"
      [] a = "DEPLOYMENT/" -> "deployment/"
      [] a = "WEB" -> "web"
      [] a = "Gateway" -> "gateway"
      [] a = "HTTPS" -> "https"
      [] a = "DELETE" -> "delete"
      [] OTHER -> a

UpperAtom(a) ==
    CASE a = "p" -> "P"
      [] a = "high" -> "HIGH"
      [] a = "sev" -> "SEV"
      [] a = "low" -> "LOW"
      [] a = "urgent" -> "URGENT"
      [] a = "critical" -> "CRITICAL"
      [] a = "error" -> "ERROR"
      [] a = "warning" -> "WARNING"
      [] a = "Critical" -> "CRITICAL"
      [] OTHER -> a

Lower(s) == [i \in 1..Len(s) |-> LowerAtom(s[i])]
Upper(s) == [i \in 1..Len(s) |-> UpperAtom(s[i])]

IsSpace(a) == a \in {" ", "\n", "\t"}

\* str.strip(): drop leading and trailing whitespace.
RECURSIVE LStrip(_)
LStrip(s) == IF s # <<>> /\ IsSpace(Head(s)) THEN LStrip(Tail(s)) ELSE s

RECURSIVE RStrip(_)
RStrip(s) ==
    IF s # <<>> /\ IsSpace(s[Len(s)]) THEN RStrip(SubSeq(s, 1, Len(s) - 1)) ELSE s

Strip(s) == RStrip(LStrip(s))

\* Python's `k in text` for strings.
Contains(text, k) ==
    \E i \in 0..(Len(text) - Len(k)) : SubSeq(text, i + 1, i + Len(k)) = k

\* " ".join(ss)
RECURSIVE JoinSpace(_)
JoinSpace(ss) ==
    IF ss = <<>> THEN <<>>
    ELSE IF Len(ss) = 1 THEN ss[1]
    ELSE ss[1] \o <<" ">> \o JoinSpace(Tail(ss))

\* re.split(r"[<seps>]+", s): the maximal runs of non-separator atoms; like
\* Python, a leading or trailing separator leaves an empty piece.
RECURSIVE SplitOn(_, _, _)
SplitOn(s, seps, cur) ==
    IF s = <<>> THEN <<cur>>
    ELSE IF Head(s) \in seps
         THEN IF Len(s) > 1 /\ s[2] \in seps
              THEN SplitOn(Tail(s), seps, cur)
              ELSE <<cur>> \o SplitOn(Tail(s), seps, <<>>)
         ELSE SplitOn(Tail(s), seps, Append(cur, Head(s)))

\* str.split(): the whitespace-separated tokens.
Tokens(s) == SelectSeq(SplitOn(s, {" ", "\n", "\t"}, <<>>), LAMBDA t : t # <<>>)

\* dict.get(k) or "" : a missing key reads as the empty string.
GetOr(d, k, dflt) == IF k \in DOMAIN d THEN d[k] ELSE dflt

\* ------------------------------------------------------------ priority

ALLOWED == {<<"P", "1">>, <<"P", "2">>, <<"P", "3">>, <<"P", "4">>, <<"P", "5">>}

P1 == <<"P", "1">>
P2 == <<"P", "2">>
P3 == <<"P", "3">>
P4 == <<"P", "4">>
P5 == <<"P", "5">>

\* Faulty variant: an unrecognised value is passed on instead of the default.
normalize_priority_echo(p, default) ==
    IF p = <<>> THEN default
    ELSE LET s == Upper(Strip(p)) IN
         IF s \in {<<"1">>, <<"HIGH">>, <<"SEV", "1">>} THEN <<"P", "1">>
         ELSE IF s \in {<<"2">>, <<"SEV", "2">>} THEN <<"P", "2">>
         ELSE IF s \in {<<"3">>, <<"MEDIUM">>, <<"SEV", "3">>} THEN <<"P", "3">>
         ELSE IF s \in {<<"4">>, <<"LOW">>, <<"SEV", "4">>} THEN <<"P", "4">>
         ELSE IF s \in {<<"5">>, <<"INFO">>, <<"SEV", "5">>} THEN <<"P", "5">>
         ELSE s

normalize_priority(p, default) ==
    IF p = <<>> THEN default
    ELSE LET s == Upper(Strip(p)) IN
         IF s \in ALLOWED THEN s
         ELSE IF s \in {<<"1">>, <<"HIGH">>, <<"SEV", "1">>} THEN P1
         ELSE IF s \in {<<"2">>, <<"SEV", "2">>} THEN P2
         ELSE IF s \in {<<"3">>, <<"MEDIUM">>, <<"SEV", "3">>} THEN P3
         ELSE IF s \in {<<"4">>, <<"LOW">>, <<"SEV", "4">>} THEN P4
         ELSE IF s \in {<<"5">>, <<"INFO">>, <<"SEV", "5">>} THEN P5
         ELSE default

P1_KEYS == {<<"outage">>, <<"data", " ", "loss">>, <<"security", " ", "breach">>,
            <<"ransomware">>, <<"compromise">>}
P2_KEYS == {<<"gateway">>, <<"upstream">>, <<"502">>, <<"db", " ", "unavailable">>,
            <<"crashloop">>, <<"oom">>, <<"timeout">>,
            <<"service", " ", "unavailable">>}
P3_KEYS == {<<"degraded">>, <<"intermittent">>, <<"slow">>, <<"retrying">>,
            <<"transient">>}

\* json.dumps of the structured payload: {"k": "v", ...}.  The keys are
\* written in a fixed order; every value is a string.
JsonKeyOrder == <<"msg", "priority", "type">>

RECURSIVE DumpsItems(_, _)
DumpsItems(j, ks) ==
    IF ks = <<>> THEN <<>>
    ELSE LET k == Head(ks)
             rest == DumpsItems(j, Tail(ks))
         IN IF k \in DOMAIN j
            THEN <<"\"", k, "\"", ":", " ", "\"">> \o j[k] \o <<"\"">>
                 \o (IF rest = <<>> THEN <<>> ELSE <<",", " ">> \o rest)
            ELSE rest

Dumps(j) == <<"{">> \o DumpsItems(j, JsonKeyOrder) \o <<"}">>

EmptyMap == <<>>

Haystack(lg, probable) ==
    Lower(JoinSpace(<<GetOr(lg, "textPayload", <<>>),
                      Dumps(GetOr(lg, "jsonPayload", EmptyMap)),
                      probable>>))

Hint(lg) ==
    LET jp == GetOr(GetOr(lg, "jsonPayload", EmptyMap), "priority", <<>>)
    IN IF jp # <<>> THEN jp ELSE GetOr(lg, "_priority_hint", <<>>)

SeverityPriority(c, lg) ==
    LET sev == Upper(IF GetOr(lg, "severity", <<>>) = <<>> THEN <<"DEFAULT">>
                     ELSE lg["severity"])
    IN IF sev \in {<<"EMERGENCY">>, <<"ALERT">>, <<"CRITICAL">>} THEN P1
       ELSE IF sev = <<"ERROR">> THEN normalize_priority(c.DEFAULT_PRIORITY, P2)
       ELSE IF sev = <<"WARNING">> THEN P3
       ELSE P4

\* Faulty variant: the model's draft is consulted before the keyword tiers.
deterministic_priority_draft_first(c, lg, draft, probable, service) ==
    LET text == Haystack(lg, probable)
        hint == Hint(lg)
    IN IF hint # <<>> THEN normalize_priority(hint, P3)
       ELSE IF draft # <<>> THEN normalize_priority(draft, P3)
       ELSE IF \E k \in P1_KEYS : Contains(text, k) THEN P1
       ELSE IF \E k \in P2_KEYS : Contains(text, k)
            THEN IF service \in c.CRITICAL_SERVICES THEN P1 ELSE P2
       ELSE IF \E k \in P3_KEYS : Contains(text, k) THEN P3
       ELSE P3

deterministic_priority(c, lg, draft, probable, service) ==
    LET text == Haystack(lg, probable)
        hint == Hint(lg)
    IN IF hint # <<>> THEN normalize_priority(hint, P3)
       ELSE IF \E k \in P1_KEYS : Contains(text, k) THEN P1
       ELSE IF \E k \in P2_KEYS : Contains(text, k)
            THEN IF service \in c.CRITICAL_SERVICES THEN P1 ELSE P2
       ELSE IF \E k \in P3_KEYS : Contains(text, k) THEN P3
       ELSE LET draft_norm == normalize_priority(draft, P3)
            IN IF draft_norm \in ALLOWED THEN draft_norm
               ELSE SeverityPriority(c, lg)

\* ------------------------------------------------------------ URLs
\* A URL is scheme ":" "//" host then "/" and path atoms.

SchemeAtoms == {"http", "https", "ftp", "HTTPS", "foo"}

\* urlparse(s).scheme, lower-cased as urlparse does.
UrlScheme(s) ==
    IF Len(s) >= 2 /\ s[1] \in SchemeAtoms /\ s[2] = ":" THEN LowerAtom(s[1]) ELSE ""

\* urlparse(s).netloc: what follows "//" up to the next "/", "?" or "#".
RECURSIVE UpToDelim(_)
UpToDelim(s) ==
    IF s = <<>> \/ Head(s) \in {"/", "//", "?", "#"} THEN <<>>
    ELSE <<Head(s)>> \o UpToDelim(Tail(s))

UrlNetloc(s) ==
    LET rest == IF UrlScheme(s) # "" THEN SubSeq(s, 3, Len(s)) ELSE s
    IN IF rest # <<>> /\ Head(rest) = "//" THEN UpToDelim(Tail(rest)) ELSE <<>>

looks_like_url(s) == UrlScheme(s) \in {"http", "https"} /\ UrlNetloc(s) # <<>>

\* str.rstrip("/")
RECURSIVE RStripSlash(_)
RStripSlash(s) ==
    IF s # <<>> /\ s[Len(s)] \in {"/", "//"}
    THEN RStripSlash(SubSeq(s, 1, Len(s) - 1)) ELSE s

\* urllib.parse.uses_relative, as far as the schemes of the model go.
UsesRelative == {"", "http", "https", "ftp"}

\* urljoin(base, slug) for a base that ends in "/" and has neither query nor
\* fragment, and a slug that is a bare relative path.
UrlJoin(base, slug) ==
    IF UrlScheme(base) \in UsesRelative THEN base \o slug ELSE slug

RUNBOOK_MAP == << <<"502", "502s">>, <<"upstream", "upstream-failure">>,
                  <<"gateway", "502s">>, <<"timeout", "timeouts">>,
                  <<"db", "db-connection">>, <<"postgres", "db-connection">>,
                  <<"connection", "db-connection">>, <<"oom", "oom">>,
                  <<"memory", "oom">> >>

RECURSIVE FirstSlug(_, _)
FirstSlug(hay, table) ==
    IF table = <<>> THEN "triage-general"
    ELSE IF Contains(hay, <<Head(table)[1]>>) THEN Head(table)[2]
    ELSE FirstSlug(hay, Tail(table))

pick_runbook_from_text(c, probable, service, full_text) ==
    LET hay == Lower(probable \o <<" ">> \o service \o <<" ">> \o full_text)
    IN UrlJoin(c.RUNBOOK_BASE \o <<"/">>, <<FirstSlug(hay, RUNBOOK_MAP)>>)

\* urllib.parse.quote, atom by atom.
QuoteAtom(a) ==
    CASE a = " " -> "%20"
      [] a = "\n" -> "%0A"
      [] a = "\"" -> "%22"
      [] OTHER -> a

Quote(s) == [i \in 1..Len(s) |-> QuoteAtom(s[i])]

NeedleMax == 80
LookbackMinutes == 60

logs_deeplink(project_id, service, needle) ==
    LET query == <<"resource.type=", "\"", "cloud_run_revision", "\"", "\n",
                   "resource.labels.service_name=", "\"">> \o service
                 \o <<"\"", "\n", "textPayload:", "\"">>
                 \o SubSeq(needle, 1, IF Len(needle) < NeedleMax THEN Len(needle)
                                      ELSE NeedleMax)
                 \o <<"\"">>
    IN <<"https", ":", "//", "console.cloud.google.com", "/", "logs", "/",
         "query", ";", "query=">> \o Quote(query)
       \o <<";", "timeRange=PT", ToString(LookbackMinutes), "M", ";", "project=">>
       \o project_id

\* The similar cases' well-formed meta.url values, in order.
RECURSIVE SimUrls(_)
SimUrls(cs) ==
    IF cs = <<>> THEN <<>>
    ELSE LET cse == Head(cs)
             meta == GetOr(cse, "meta", EmptyMap)
             u == GetOr(meta, "url", <<>>)
         IN (IF u # <<>> /\ looks_like_url(u) THEN <<u>> ELSE <<>>)
            \o SimUrls(Tail(cs))

\* Faulty variant: the mapped runbook is used without the second well-formedness check.
resolve_runbook_unchecked(c, rb, cs, probable, service, qtext) ==
    IF ~looks_like_url(rb)
    THEN LET sim_urls == SimUrls(cs) IN
         IF sim_urls # <<>> THEN Head(sim_urls)
         ELSE pick_runbook_from_text(c, probable, service, qtext)
    ELSE IF RStripSlash(rb) = RStripSlash(c.RUNBOOK_BASE)
         THEN pick_runbook_from_text(c, probable, service, qtext)
         ELSE rb

resolve_runbook(c, rb, cs, probable, service, qtext) ==
    IF ~looks_like_url(rb)
    THEN LET sim_urls == SimUrls(cs) IN
         IF sim_urls # <<>> THEN Head(sim_urls)
         ELSE LET chosen == pick_runbook_from_text(c, probable, service, qtext)
              IN IF looks_like_url(chosen) THEN chosen
                 ELSE logs_deeplink(c.DEFAULT_PROJECT, service,
                                    IF probable = <<>> THEN <<"error">> ELSE probable)
    ELSE IF RStripSlash(rb) = RStripSlash(c.RUNBOOK_BASE)
         THEN pick_runbook_from_text(c, probable, service, qtext)
         ELSE rb

\* ------------------------------------------------------------ commands

ALLOWED_CMD_PREFIXES == {"kubectl", "gcloud", "curl", "psql", "grep", "tail",
                         "journalctl", "dig", "nslookup", "helm"}

\* The atoms of the model that begin with a character outside [A-Za-z0-9_]:
\* after a program name they make the word boundary \b of _CMD_RX.
NonWordStart == {" ", "\n", "\t", ";", ",", "-", "-x", "-l", "-I", "-o", "-s", "-w",
                 "--tail=100", "--limit=50", "--format=json", "--region",
                 "--project", "/", "//", ":", "=", "'", "\"", "."}

\* _CMD_RX.match(s): an allow-listed name, any case, then a word boundary.
CmdRxMatch(s) ==
    /\ s # <<>>
    /\ LowerAtom(s[1]) \in ALLOWED_CMD_PREFIXES
    /\ (Len(s) = 1 \/ s[2] \in NonWordStart)

looks_like_cmd(s0) ==
    LET s == Strip(s0)
    IN s # <<>> /\ Len(Tokens(s)) > 1 /\ CmdRxMatch(s)

\* _coerce_list of a value the parser has typed as a list of strings.
coerce_list(x) == x

RECURSIVE SplitAll(_)
SplitAll(items) ==
    IF items = <<>> THEN <<>>
    ELSE SplitOn(Head(items), {";", "\n"}, <<>>) \o SplitAll(Tail(items))

RECURSIVE DedupCmds(_, _)
DedupCmds(ls, seen) ==
    IF ls = <<>> THEN <<>>
    ELSE LET l == Strip(Head(ls)) IN
         IF l # <<>> /\ looks_like_cmd(l) /\ Lower(l) \notin seen
         THEN <<l>> \o DedupCmds(Tail(ls), seen \cup {Lower(l)})
         ELSE DedupCmds(Tail(ls), seen)

normalize_cmds(raw) == DedupCmds(SplitAll(coerce_list(raw)), {})

GatewayCmds(service) ==
    << <<"kubectl", " ", "logs", " ", "-l", " ", "service=">> \o service
           \o <<" ", "--tail=100">>,
       <<"kubectl", " ", "get", " ", "services", " ">> \o service
           \o <<" ", "-o", " ", "yaml">>,
       <<"kubectl", " ", "describe", " ", "pod", " ", "-l", " ", "service=">>
           \o service,
       <<"curl", " ", "-s", " ", "-o", " ", "/dev/null", " ", "-w", " ",
         "'%{http_code}\\n'", " ", "https", ":", "//", "<web-edge-service-url>">> >>

GenericCmds(c, service) ==
    << <<"gcloud", " ", "logging", " ", "read", " ", "'", "resource.type=", "\"",
         "cloud_run_revision", "\"", " ", "AND", " ",
         "resource.labels.service_name=", "\"">> \o service
           \o <<"\"", " ", "AND", " ", "severity>=", "\"", "ERROR", "\"", "'", " ",
                "--limit=50", " ", "--format=json">>,
       <<"gcloud", " ", "run", " ", "services", " ", "describe", " ">> \o service
           \o <<" ", "--region", " ">> \o c.DEFAULT_REGION
           \o <<" ", "--project", " ">> \o c.DEFAULT_PROJECT,
       <<"curl", " ", "-I", " ", "https", ":", "//", "<service-url>">> >>

FallbackCmds(c, probable, service) ==
    LET low == Lower(probable)
    IN IF \E k \in {"nginx", "gateway", "upstream", "502"} : Contains(low, <<k>>)
       THEN GatewayCmds(service)
       ELSE GenericCmds(c, service)

RestartCmd(service) ==
    <<"kubectl", " ", "rollout", " ", "restart", " ", "deployment/">> \o service

MaxCmds == 5
MinCmds == 2

\* agent.py 244-267: the commands of the decision, from the draft's commands,
\* the draft's priority, the probable cause and the resolved service.
harden_cmds(c, raw, draft_priority, probable, service) ==
    LET norm == normalize_cmds(raw)
        cmds == IF Len(norm) < MinCmds THEN FallbackCmds(c, probable, service)
                ELSE norm
        restart == RestartCmd(service)
        with == IF Upper(draft_priority) = P1
                   /\ ~\E i \in 1..Len(cmds) : Contains(cmds[i], restart)
                THEN Append(cmds, restart) ELSE cmds
    IN SubSeq(with, 1, IF Len(with) < MaxCmds THEN Len(with) ELSE MaxCmds)

\* ------------------------------------------------------------ key, service

StableKeys == <<"jsonPayload", "logName", "resource", "textPayload">>

RECURSIVE StableItems(_, _)
StableItems(lg, ks) ==
    IF ks = <<>> THEN <<>>
    ELSE LET k == Head(ks)
             v == IF k \notin DOMAIN lg THEN <<"null">>
                  ELSE IF k \in {"jsonPayload", "resource"} THEN Dumps(lg[k])
                  ELSE <<"\"">> \o lg[k] \o <<"\"">>
         IN <<"\"", k, "\"", ":", " ">> \o v
            \o (IF Len(ks) > 1 THEN <<",", " ">> ELSE <<>>)
            \o StableItems(lg, Tail(ks))

\* Faulty variant: the attached _dedupe_hint is hashed with the four fields.
stable_key_with_hint(lg) ==
    <<"sha1[:16]", "{">> \o StableItems(lg, <<"_dedupe_hint">> \o StableKeys) \o <<"}">>

\* _stable_key: the digest of the sorted-key serialization of the four
\* fields; the digest is kept symbolic, as a tag on the text it hashes.
stable_key(lg) == <<"sha1[:16]", "{">> \o StableItems(lg, StableKeys) \o <<"}">>

UnknownService == <<"unknown-service">>

resolve_service(draft_service, lg) ==
    IF draft_service # <<>> THEN draft_service
    ELSE LET lab == GetOr(GetOr(lg, "labels", EmptyMap), "service_name", <<>>)
         IN IF lab # <<>> THEN lab ELSE UnknownService

\* Faulty variant: an empty channel list is returned as it is.
harden_channels_no_default(c, raw) == coerce_list(raw)

harden_channels(c, raw) ==
    LET nc == coerce_list(raw)
    IN IF nc = <<>> THEN << <<"email:">> \o c.ALERT_EMAIL >> ELSE nc

QueryText(lg) ==
    IF GetOr(lg, "textPayload", <<>>) # <<>> THEN lg["textPayload"]
    ELSE Dumps(GetOr(lg, "jsonPayload", EmptyMap))

\* ------------------------------------------------------------ triage

\* What the model returns is a JSON object: a function from the field names
\* present to typed values.
S(v) == [t |-> "str", v |-> v]
L(v) == [t |-> "list", v |-> v]
WrongType == [t |-> "int", v |-> <<>>]

RequiredFields == {"severity", "service", "priority", "probable_cause", "runbook",
                   "dedupe_key"}
ListFields == {"notify_channels", "suggest_cmds"}

\* _parser.parse: TriageDecision validates; a required field that is missing
\* or not a string, or a list field that is not a list, raises.
ParseOk(out) ==
    /\ RequiredFields \subseteq DOMAIN out
    /\ \A f \in RequiredFields : out[f].t = "str"
    /\ \A f \in ListFields \cap DOMAIN out : out[f].t = "list"

Parsed(out) ==
    [f \in RequiredFields \cup ListFields |->
        IF f \in DOMAIN out THEN out[f].v ELSE <<>>]

NoDecision == <<>>

\* agent.py 210-277 on the parsed draft d.
Harden(c, lg, cs, qtext, d) ==
    LET service == resolve_service(d["service"], lg)
    IN [severity |-> d["severity"],
        service |-> service,
        probable_cause |-> d["probable_cause"],
        dedupe_key |-> IF Strip(d["dedupe_key"]) # <<>> THEN d["dedupe_key"]
                       ELSE stable_key(lg),
        notify_channels |-> harden_channels(c, d["notify_channels"]),
        runbook |-> resolve_runbook(c, d["runbook"], cs, d["probable_cause"],
                                    service, qtext),
        suggest_cmds |-> harden_cmds(c, d["suggest_cmds"], d["priority"],
                                     d["probable_cause"], service),
        priority |-> deterministic_priority(c, lg, d["priority"],
                                            d["probable_cause"], service)]

\* retrieve_similar(query_text, k=4): at most k of the store's matches.
K == 4

\* agent.py 197-203
TriageRetrieve ==
    /\ pc = "received"
    /\ query_text' = QueryText(log)
    /\ cases' = SubSeq(kb, 1, IF Len(kb) < K THEN Len(kb) ELSE K)
    /\ log' = IF "_dedupe_hint" \in DOMAIN log THEN log
              ELSE log @@ ("_dedupe_hint" :> stable_key(log))
    /\ pc' = "retrieved"
    /\ UNCHANGED <<cfg, kb, llm_out, decision>>

\* agent.py 205-208, the parser accepts the draft
TriageDraft ==
    /\ pc = "retrieved"
    /\ ParseOk(llm_out)
    /\ decision' = Parsed(llm_out)
    /\ pc' = "parsed"
    /\ UNCHANGED <<cfg, log, kb, llm_out, cases, query_text>>

\* agent.py 208, the parser raises and triage with it
TriageDraftRaise ==
    /\ pc = "retrieved"
    /\ ~ParseOk(llm_out)
    /\ pc' = "raised"
    /\ UNCHANGED <<cfg, log, kb, llm_out, cases, query_text, decision>>

\* agent.py 210-277
TriageHarden ==
    /\ pc = "parsed"
    /\ decision' = Harden(cfg, log, cases, query_text, decision)
    /\ pc' = "returned"
    /\ UNCHANGED <<cfg, log, kb, llm_out, cases, query_text>>

Next == TriageRetrieve \/ TriageDraft \/ TriageDraftRaise \/ TriageHarden

\* ------------------------------------------------------------ inputs

DefaultBase == <<"https", ":", "//", "srujanpulathota.github.io", "/", "runbooks">>

DefaultCfg ==
    [RUNBOOK_BASE |-> DefaultBase,
     DEFAULT_PROJECT |-> <<"my-gcp-project">>,
     DEFAULT_REGION |-> <<"us-central1">>,
     ALERT_EMAIL |-> <<"you@gmail.com">>,
     DEFAULT_PRIORITY |-> P2,
     CRITICAL_SERVICES |-> {}]

\* A dict with key k when has, without it otherwise.
Opt(k, o) == IF o[1] THEN k :> o[2] ELSE <<>>

Absent == <<FALSE, <<>>>>
Some(v) == <<TRUE, v>>

MkLog(text, json, hint, sev, lab) ==
    Opt("textPayload", text) @@ Opt("jsonPayload", json)
    @@ Opt("_priority_hint", hint) @@ Opt("severity", sev)
    @@ (IF lab[1] THEN "labels" :> ("service_name" :> lab[2]) ELSE <<>>)

MkDraft(priority, probable, service, runbook, cmds) ==
    [severity |-> S(<<"ERROR">>), service |-> S(service), priority |-> S(priority),
     probable_cause |-> S(probable), runbook |-> S(runbook),
     dedupe_key |-> S(<<>>), notify_channels |-> L(<<>>), suggest_cmds |-> L(cmds)]

\* The model answered with the empty object {}.
EmptyDraft == <<>>

TwoCmds == << <<"kubectl", " ", "get", " ", "pods">>,
              <<"curl", " ", "-I", " ", "x">> >>

WikiUrl == <<"https", ":", "//", "wiki", "/", "runbooks", "/", "db-pool">>

InitCommon ==
    /\ cases = <<>>
    /\ query_text = <<>>
    /\ decision = NoDecision
    /\ pc = "received"

\* ---- inputs of the priority classifier
PrioTexts == {Absent,
              Some(<<"all", " ", "ok">>),
              Some(<<"OUTAGE", " ", "in", " ", "region">>),
              Some(<<"nginx", ":", " ", "Upstream", " ", "prematurely", " ", "closed">>),
              Some(<<"HTTP", " ", "502">>),
              Some(<<"slow", " ", "responses">>)}
PrioJsons == {Absent, Some("msg" :> <<"data", " ", "loss">>),
              Some("priority" :> <<"high">>), Some("priority" :> <<"bogus">>),
              Some("priority" :> <<>>)}
PrioHints == {Absent, Some(<<"sev", "2">>)}
PrioSevs == {Absent, Some(<<"CRITICAL">>), Some(<<"error">>), Some(<<"WARNING">>),
             Some(<<"INFO">>)}
PrioLabels == {Absent, Some(<<"web">>)}
PrioDrafts == {<<>>, P1, <<"p", "4">>, <<" ", "P", "5", " ">>, <<"urgent">>, <<"2">>}
PrioProbables == {<<>>, <<"Gateway", " ", "error">>}

InitPriority ==
    /\ InitCommon
    /\ kb = <<>>
    /\ cfg \in {[DefaultCfg EXCEPT !.CRITICAL_SERVICES = cs, !.DEFAULT_PRIORITY = dp] :
                  cs \in {{}, {<<"web">>}}, dp \in {P2, <<"bogus">>}}
    /\ log \in {MkLog(t, j, h, s, l) : t \in PrioTexts, j \in PrioJsons,
                  h \in PrioHints, s \in PrioSevs, l \in PrioLabels}
    /\ llm_out \in {MkDraft(p, pr, <<>>, WikiUrl, TwoCmds) :
                      p \in PrioDrafts, pr \in PrioProbables} \cup {EmptyDraft}

SpecPriority == InitPriority /\ [][Next]_vars

\* ---- inputs of the parser: every required field missing, empty or given
TotalStr(v) == {<<"missing">>, <<"given", S(<<>>)>>, <<"given", S(v)>>}
TotalField(k, o) == IF o[1] = "missing" THEN <<>> ELSE k :> o[2]

InitTotal ==
    /\ InitCommon
    /\ kb = <<>>
    /\ cfg = DefaultCfg
    /\ log \in {MkLog(Some(<<"all", " ", "ok">>), Absent, Absent, s, Absent) :
                  s \in {Absent, Some(<<"CRITICAL">>)}}
    /\ llm_out \in
         {("severity" :> S(<<"ERROR">>))
          @@ TotalField("service", sv) @@ TotalField("priority", p)
          @@ TotalField("probable_cause", pr) @@ TotalField("runbook", rb)
          @@ TotalField("dedupe_key", dk) @@ TotalField("suggest_cmds", sc) :
            sv \in TotalStr(<<"web">>),
            p \in TotalStr(P4) \cup {<<"given", WrongType>>},
            pr \in TotalStr(<<"disk", " ", "full">>),
            rb \in TotalStr(WikiUrl),
            dk \in TotalStr(<<"abc123">>),
            sc \in {<<"missing">>, <<"given", L(<<>>)>>, <<"given", WrongType>>}}
         \cup {EmptyDraft}

SpecTotal == InitTotal /\ [][Next]_vars

SeqsUpTo(pool, n) == UNION {[1..k -> pool] : k \in 0..n}

\* ---- inputs of the command step
MaxDraftCmds == 2

CmdGetPods == <<"kubectl", " ", "get", " ", "pods">>
CmdGetPodsUpper == <<"KUBECTL", " ", "GET", " ", "PODS">>
CmdJoined == <<"curl", " ", "-I", " ", "x", ";", "kubectl", " ", "get", " ", "pods",
               ";", " ", ";", "helm", " ", "list">>
CmdProse == <<"check", " ", "the", " ", "logs">>
CmdBare == <<"kubectl">>
CmdPlugin == <<"kubectl", "-x", " ", "y">>
CmdNoBoundary == <<"kubectl", "x", " ", "y">>
CmdRestartWeb == <<"kubectl", " ", "rollout", " ", "restart", " ", "deployment/", "web">>
CmdRestartWebUpper ==
    <<"KUBECTL", " ", "rollout", " ", "restart", " ", "deployment/", "web">>
CmdRestartApi == <<"kubectl", " ", "rollout", " ", "restart", " ", "deployment/", "api">>
CmdDelete == <<"kubectl", " ", "delete", " ", "pod", " ", "x">>
CmdSixDigs == <<"dig", " ", "a", ";", "dig", " ", "b", ";", "dig", " ", "c", ";",
                "dig", " ", "d", ";", "dig", " ", "e", ";", "dig", " ", "f">>

CmdPool == {CmdGetPods, CmdGetPodsUpper, CmdJoined, CmdProse, CmdBare, CmdPlugin,
            CmdNoBoundary, CmdRestartWeb, CmdRestartWebUpper, CmdRestartApi,
            CmdDelete, CmdSixDigs}

InitCmds ==
    /\ InitCommon
    /\ kb = <<>>
    /\ cfg = DefaultCfg
    /\ log \in {MkLog(t, Absent, Absent, Absent, Absent) :
                  t \in {Some(<<"all", " ", "ok">>),
                         Some(<<"OUTAGE", " ", "in", " ", "region">>)}}
    /\ llm_out \in {MkDraft(p, pr, <<"web">>, WikiUrl, cmds) :
                      p \in {P1, <<"p", "1">>, P3},
                      pr \in {<<>>, <<"Gateway", " ", "error">>},
                      cmds \in SeqsUpTo(CmdPool, MaxDraftCmds)} \cup {EmptyDraft}

SpecCmds == InitCmds /\ [][Next]_vars

\* ---- inputs of the runbook step
MaxCases == 2

BaseEnvs == {DefaultBase, DefaultBase \o <<"/">>, <<"https", ":", "//", "wiki">>,
             <<"runbooks">>, <<"foo", ":", "//", "h">>,
             <<"ftp", ":", "//", "h", "/", "rb">>}

CasePool == {[text |-> <<"old", " ", "case">>],
             [text |-> <<"old", " ", "case">>, meta |-> ("service" :> <<"web">>)],
             [text |-> <<"old", " ", "case">>, meta |-> ("url" :> WikiUrl)],
             [text |-> <<"old", " ", "case">>,
              meta |-> ("url" :> <<"see", " ", "wiki">>)],
             [text |-> <<"old", " ", "case">>, meta |-> ("url" :> DefaultBase)]}

DraftRunbooks(base) ==
    {<<>>, <<"see", " ", "wiki">>, WikiUrl, base, base \o <<"/">>,
     <<"ftp", ":", "//", "h", "/", "x">>, <<"https", ":", "//", "/", "x">>,
     <<"HTTPS", ":", "//", "wiki", "/", "y">>}

InitRunbook ==
    /\ InitCommon
    /\ kb \in SeqsUpTo(CasePool, MaxCases)
    \* RUNBOOK_BASE = os.getenv(...).rstrip("/")
    /\ cfg \in {[DefaultCfg EXCEPT !.RUNBOOK_BASE = RStripSlash(e)] : e \in BaseEnvs}
    /\ log \in {MkLog(t, Absent, Absent, Absent, Absent) :
                  t \in {Absent, Some(<<"nginx", ":", " ", "Upstream", " ", "closed">>)}}
    /\ llm_out \in {MkDraft(P3, pr, <<"web">>, rb, TwoCmds) :
                      pr \in {<<>>, <<"db", " ", "timeout">>},
                      rb \in DraftRunbooks(cfg.RUNBOOK_BASE)} \cup {EmptyDraft}

SpecRunbook == InitRunbook /\ [][Next]_vars

\* ---- inputs of the channel step
MaxChannels == 2

ChannelPool == {<<"email:", "ops@example.com">>, <<"slack:", "#sre">>,
                <<"pagerduty">>, <<>>}

Without(d, k) == [f \in (DOMAIN d) \ {k} |-> d[f]]

ChannelDraft(ch) == [MkDraft(P3, <<>>, <<"web">>, WikiUrl, TwoCmds)
                       EXCEPT !["notify_channels"] = ch]

InitChannels ==
    /\ InitCommon
    /\ kb = <<>>
    /\ cfg \in {[DefaultCfg EXCEPT !.ALERT_EMAIL = a] :
                  a \in {<<"you@gmail.com">>, <<"oncall@example.com">>}}
    /\ log \in {MkLog(t, Absent, Absent, Absent, Absent) :
                  t \in {Absent, Some(<<"all", " ", "ok">>)}}
    /\ llm_out \in {ChannelDraft(L(ch)) : ch \in SeqsUpTo(ChannelPool, MaxChannels)}
                   \cup {Without(ChannelDraft(L(<<>>)), "notify_channels"),
                         ChannelDraft(WrongType), EmptyDraft}

SpecChannels == InitChannels /\ [][Next]_vars

\* ---- inputs of the key deriver
KeyLogs ==
    {MkLog(t, j, Absent, s, Absent) @@ Opt("logName", n) @@ Opt("resource", r)
     @@ Opt("_dedupe_hint", h) :
       t \in {Absent, Some(<<"all", " ", "ok">>), Some(<<"disk", " ", "full">>)},
       j \in {Absent, Some("msg" :> <<"disk", " ", "full">>)},
       s \in {Absent, Some(<<"ERROR">>)},
       n \in {Absent, Some(<<"projects/p/logs/run">>)},
       r \in {Absent, Some("type" :> <<"cloud_run_revision">>)},
       h \in {Absent, Some(<<"caller-hint">>)}}

KeyDraft(dk) == [MkDraft(P3, <<>>, <<"web">>, WikiUrl, TwoCmds)
                   EXCEPT !["dedupe_key"] = S(dk)]

InitKey ==
    /\ InitCommon
    /\ kb = <<>>
    /\ cfg = DefaultCfg
    /\ log \in KeyLogs
    /\ llm_out \in {KeyDraft(dk) : dk \in {<<>>, <<" ">>, <<"abc123">>}}
                   \cup {EmptyDraft}

SpecKey == InitKey /\ [][Next]_vars

\* ------------------------------------------------------------ claims

Returned == pc = "returned"

\* The draft's fields as the model wrote them.
DraftStr(f) == IF f \in DOMAIN llm_out THEN llm_out[f].v ELSE <<>>

\* C1: for every log that is a mapping and every draft, with any field
\* missing, empty or wrongly typed, triage returns a Decision and never raises.
TriageNeverRaises == pc # "raised"

FivePriorities == {<<"P", n>> : n \in {"1", "2", "3", "4", "5"}}

\* C2: the priority of every returned Decision is one of P1, P2, P3, P4, P5,
\* also when the explicit hint or DEFAULT_PRIORITY is an unrecognised string.
PriorityTotality == Returned => decision.priority \in FivePriorities

PriorityTotalityWitness ==
    /\ Returned
    /\ Hint(log) = <<"bogus">>
    /\ cfg.DEFAULT_PRIORITY = <<"bogus">>
    /\ decision.priority \in FivePriorities

\* What the priority strings of the inputs mean; <<>> for a string that names
\* no priority.
Meaning(p) ==
    CASE p = <<"high">> -> <<"P", "1">>
      [] p = <<"P", "1">> -> <<"P", "1">>
      [] p = <<"sev", "2">> -> <<"P", "2">>
      [] p = <<"2">> -> <<"P", "2">>
      [] p = <<"p", "4">> -> <<"P", "4">>
      [] p = <<" ", "P", "5", " ">> -> <<"P", "5">>
      [] OTHER -> <<>>

HasKey(keys) ==
    \E k \in keys : Contains(Haystack(log, DraftStr("probable_cause")), k)

Tier1 == HasKey({<<"outage">>, <<"data", " ", "loss">>})
Tier2 == HasKey({<<"502">>, <<"upstream">>, <<"gateway">>})
Tier3 == HasKey({<<"slow">>})

\* C3: the classifier's rules in their precedence: a hint wins over keywords
\* and draft; then a tier-1 keyword gives P1; then a tier-2 keyword gives P1
\* for a critical service and P2 otherwise; then a tier-3 keyword gives P3; the
\* draft's priority is used only when no tier fires.
PriorityPrecedence ==
    Returned =>
      LET hint == Hint(log)
          p == decision.priority
      IN /\ (hint # <<>> /\ Meaning(hint) # <<>>) => p = Meaning(hint)
         /\ (hint = <<>> /\ Tier1) => p = <<"P", "1">>
         /\ (hint = <<>> /\ ~Tier1 /\ Tier2) =>
              p = IF decision.service \in cfg.CRITICAL_SERVICES
                  THEN <<"P", "1">> ELSE <<"P", "2">>
         /\ (hint = <<>> /\ ~Tier1 /\ ~Tier2 /\ Tier3) => p = <<"P", "3">>
         /\ (hint = <<>> /\ ~Tier1 /\ ~Tier2 /\ ~Tier3
             /\ Meaning(DraftStr("priority")) # <<>>) =>
              p = Meaning(DraftStr("priority"))

PriorityPrecedenceWitness ==
    /\ Returned
    /\ Hint(log) = <<>>
    /\ ~Tier1 /\ Tier2
    /\ DraftStr("priority") = <<"p", "4">>
    /\ decision.service \in cfg.CRITICAL_SERVICES
    /\ decision.priority = <<"P", "1">>

\* C4: without hint and keyword, a draft priority that is absent or names no
\* priority leaves the priority to the log's severity: EMERGENCY, ALERT,
\* CRITICAL give P1, ERROR the configured default, WARNING P3, the rest P4.
SeverityFallback ==
    (/\ Returned
     /\ Hint(log) = <<>>
     /\ ~Tier1 /\ ~Tier2 /\ ~Tier3
     /\ Meaning(DraftStr("priority")) = <<>>)
    => decision.priority =
         LET sev == Upper(GetOr(log, "severity", <<"DEFAULT">>))
         IN IF sev = <<"CRITICAL">> THEN <<"P", "1">>
            ELSE IF sev = <<"ERROR">>
                 THEN (IF cfg.DEFAULT_PRIORITY \in FivePriorities
                       THEN cfg.DEFAULT_PRIORITY ELSE <<"P", "2">>)
            ELSE IF sev = <<"WARNING">> THEN <<"P", "3">>
            ELSE <<"P", "4">>

AllowedPrograms == {"kubectl", "gcloud", "curl", "psql", "grep", "tail", "journalctl",
                    "dig", "nslookup", "helm"}

\* C5: the returned suggest_cmds has 2 to 5 items, each of at least two
\* whitespace-separated tokens, the first of which is an allow-listed program
\* name in any case.
CommandBounds ==
    Returned =>
      LET cmds == decision.suggest_cmds
      IN /\ Len(cmds) >= 2 /\ Len(cmds) <= 5
         /\ \A i \in 1..Len(cmds) :
              LET toks == Tokens(cmds[i])
              IN /\ Len(toks) >= 2
                 /\ \E a \in AllowedPrograms : Lower(toks[1]) = <<a>>

\* What _CMD_RX does enforce: 2 to 5 items, each of at least two tokens and
\* beginning with an allow-listed name (the first token may go on after it).
CommandBoundsPrefix ==
    Returned =>
      LET cmds == decision.suggest_cmds
      IN /\ Len(cmds) >= 2 /\ Len(cmds) <= 5
         /\ \A i \in 1..Len(cmds) :
              /\ Len(Tokens(cmds[i])) >= 2
              /\ LowerAtom(Tokens(cmds[i])[1][1]) \in AllowedPrograms

\* The draft's commands cut at ";" and newline, trimmed.
Fragments ==
    LET raw == SplitAll(DraftStr("suggest_cmds"))
    IN [i \in 1..Len(raw) |-> Strip(raw[i])]

FirstIndex(seq, x) == CHOOSE i \in 1..Len(seq) : seq[i] = x /\ \A j \in 1..(i - 1) : seq[j] # x

IsFragment(x) == \E i \in 1..Len(Fragments) : Fragments[i] = x

\* C6: no two items of the returned suggest_cmds are equal up to case, the
\* appended command included, and the draft's surviving commands keep the
\* order of their first occurrence.
CommandsDeduplicated ==
    Returned =>
      LET cmds == decision.suggest_cmds
      IN /\ \A i, j \in 1..Len(cmds) : i < j => Lower(cmds[i]) # Lower(cmds[j])
         /\ \A i, j \in 1..Len(cmds) :
              (i < j /\ IsFragment(cmds[i]) /\ IsFragment(cmds[j]))
              => FirstIndex(Fragments, cmds[i]) < FirstIndex(Fragments, cmds[j])

IsRestart(cmd) == Contains(Lower(cmd), <<"rollout", " ", "restart">>)

Synthesized(service) ==
    <<"kubectl", " ", "rollout", " ", "restart", " ", "deployment/">> \o service

\* C7: when the final priority is P1 and no command already restarts the
\* service, the synthesized restart is the last returned command; when the
\* final priority is not P1 no restart is synthesized.
RestartOnFinalP1 ==
    Returned =>
      LET cmds == decision.suggest_cmds
          syn == Synthesized(decision.service)
      IN /\ (/\ decision.priority = <<"P", "1">>
             /\ ~\E i \in 1..(Len(cmds) - 1) : Contains(cmds[i], syn))
            => cmds[Len(cmds)] = syn
         /\ (/\ decision.priority # <<"P", "1">>
             /\ \E i \in 1..Len(cmds) : cmds[i] = syn)
            => IsFragment(syn)

MutatingVerbs == {"delete", "apply", "scale", "patch"}

\* C8: at most one returned command is a rollout restart, and every other
\* returned command is read-only.
AtMostOneRestart ==
    Returned =>
      LET cmds == decision.suggest_cmds
      IN /\ Cardinality({i \in 1..Len(cmds) : IsRestart(cmds[i])}) <= 1
         /\ \A i \in 1..Len(cmds) :
              ~IsRestart(cmds[i])
              => \A n \in 1..Len(cmds[i]) : LowerAtom(cmds[i][n]) \notin MutatingVerbs

\* scheme exactly http or https, and a host
HttpUrl(u) ==
    /\ Len(u) >= 4
    /\ LowerAtom(u[1]) \in {"http", "https"}
    /\ u[2] = ":"
    /\ u[3] = "//"
    /\ u[4] \notin {"/", "//", "?", "#"}

\* C9: the runbook of every returned Decision is a well-formed http(s) URL
\* with a host, whatever the draft runbook, the similar cases and the
\* configured runbook base, a base that is no URL included.
RunbookWellFormed == Returned => HttpUrl(decision.runbook)

RunbookWellFormedWitness ==
    /\ Returned
    /\ ~HttpUrl(cfg.RUNBOOK_BASE)
    /\ DraftStr("runbook") = <<"see", " ", "wiki">>
    /\ cases # <<>>
    /\ decision.runbook[4] = "console.cloud.google.com"

\* C10: the runbook of a returned Decision is never empty and never the bare
\* runbook base, with or without a trailing slash, whichever tier produced it.
RunbookNotBareBase ==
    Returned =>
      /\ decision.runbook # <<>>
      /\ RStripSlash(decision.runbook) # RStripSlash(cfg.RUNBOOK_BASE)

\* C11: the notify_channels of a returned Decision is never empty: one
\* element, email:<configured alert address>, when the draft's channels are
\* empty or absent, and the draft's channels in their order otherwise.
ChannelsNormalized ==
    Returned =>
      LET raw == DraftStr("notify_channels")
      IN /\ decision.notify_channels # <<>>
         /\ raw = <<>> => decision.notify_channels = << <<"email:">> \o cfg.ALERT_EMAIL >>
         /\ raw # <<>> => decision.notify_channels = raw

ChannelsNormalizedWitness ==
    /\ Returned
    /\ "notify_channels" \notin DOMAIN llm_out
    /\ cfg.ALERT_EMAIL = <<"oncall@example.com">>
    /\ decision.notify_channels = << <<"email:", "oncall@example.com">> >>

FourFields == {"logName", "resource", "textPayload", "jsonPayload"}

\* The log cut down to the four identity fields.
Proj4(lg) == [k \in FourFields \cap DOMAIN lg |-> lg[k]]

IsDigest(key) == key # <<>> /\ key[1] = "sha1[:16]"

\* C12: the dedupe_key of every returned Decision is the 16-hex digest, and
\* it is decided by the log's logName, resource, textPayload and jsonPayload
\* alone, whatever the draft contained.
DedupeKeyStable ==
    Returned =>
      /\ IsDigest(decision.dedupe_key)
      /\ decision.dedupe_key = stable_key(Proj4(log))

\* What the code keeps of C12: a blank draft key is replaced by the digest of
\* the four fields.
DedupeKeyFallback ==
    (Returned /\ Strip(DraftStr("dedupe_key")) = <<>>)
    => decision.dedupe_key = stable_key(Proj4(log))

\* The first similar case, in order, whose meta.url is a well-formed URL;
\* <<>> when there is none.
RECURSIVE FirstCaseUrl(_)
FirstCaseUrl(cs) ==
    IF cs = <<>> THEN <<>>
    ELSE LET c1 == Head(cs)
             u == IF "meta" \in DOMAIN c1 /\ "url" \in DOMAIN c1["meta"]
                  THEN c1["meta"]["url"] ELSE <<>>
         IN IF HttpUrl(u) THEN u ELSE FirstCaseUrl(Tail(cs))

\* The slug the keyword table gives for the probable causes and log texts of
\* the inputs ("upstream" stands before "timeout", "timeout" before "db").
ExpectedSlug ==
    IF Contains(Lower(query_text), <<"upstream">>) THEN "upstream-failure"
    ELSE IF Contains(Lower(DraftStr("probable_cause")), <<"timeout">>) THEN "timeouts"
    ELSE "triage-general"

\* C13: the runbook tiers in their order: a draft that is a well-formed URL
\* and not the bare base is kept; otherwise the first similar case with a
\* well-formed meta.url is used; only without one the keyword slug under the
\* base, with triage-general as its default; and the deep link when that is
\* no URL.
RunbookTiers ==
    Returned =>
      LET rb == DraftStr("runbook")
          bare == RStripSlash(rb) = RStripSlash(cfg.RUNBOOK_BASE)
          sim == FirstCaseUrl(cases)
      IN IF HttpUrl(rb) /\ ~bare THEN decision.runbook = rb
         ELSE IF sim # <<>> THEN decision.runbook = sim
         ELSE IF HttpUrl(cfg.RUNBOOK_BASE)
              THEN decision.runbook = cfg.RUNBOOK_BASE \o <<"/", ExpectedSlug>>
              ELSE decision.runbook[4] = "console.cloud.google.com"

\* What the code keeps of C13: the same order for every draft but the bare
\* base, which goes to the keyword slug without a look at the similar cases.
RunbookTiersBareBaseToSlug ==
    Returned =>
      LET rb == DraftStr("runbook")
          bare == RStripSlash(rb) = RStripSlash(cfg.RUNBOOK_BASE)
          sim == FirstCaseUrl(cases)
      IN IF HttpUrl(rb)
         THEN decision.runbook =
                IF bare THEN cfg.RUNBOOK_BASE \o <<"/", ExpectedSlug>> ELSE rb
         ELSE IF sim # <<>> THEN decision.runbook = sim
         ELSE IF HttpUrl(cfg.RUNBOOK_BASE)
              THEN decision.runbook = cfg.RUNBOOK_BASE \o <<"/", ExpectedSlug>>
              ELSE decision.runbook[4] = "console.cloud.google.com"

\* Two logs get the same key exactly when they agree on the four fields; the
\* key stands for the text it hashes, so distinct keys are distinct
\* serialized projections.
KeyByProjection ==
    \A o \in KeyLogs : (Proj4(o) = Proj4(log)) <=> (stable_key(o) = stable_key(log))

\* A step of triage leaves every field of the log as it was, adds at most
\* _dedupe_hint, and leaves the key of the log unchanged.
LogOnlyGainsHint ==
    /\ \A k \in DOMAIN log : k \in DOMAIN log' /\ log'[k] = log[k]
    /\ (DOMAIN log') \subseteq (DOMAIN log) \cup {"_dedupe_hint"}
    /\ stable_key(log') = stable_key(log)

\* C14: _stable_key is a function of the log's projection on logName,
\* resource, textPayload and jsonPayload: logs equal there get the same key
\* whatever their other fields, _dedupe_hint included, and logs that differ
\* there get different projections; triage changes the log only by attaching
\* _dedupe_hint when absent, leaves an existing one alone, and the key
\* computed afterwards is the same.
StableKeyDeterminism == [](KeyByProjection) /\ [][LogOnlyGainsHint]_vars

StableKeyDeterminismWitness ==
    /\ Returned
    /\ "severity" \in DOMAIN log
    /\ log["_dedupe_hint"] = stable_key(log)
    /\ decision.dedupe_key = log["_dedupe_hint"]
    /\ \E o \in KeyLogs :
         /\ "severity" \notin DOMAIN o
         /\ "_dedupe_hint" \in DOMAIN o
         /\ Proj4(o) = Proj4(log)
         /\ stable_key(o) = stable_key(log)
    /\ \E o \in KeyLogs : Proj4(o) # Proj4(log) /\ stable_key(o) # stable_key(log)

====
